---- MODULE Spec2Model ----
(***************************************************************************)
(* The path tracer of graphics-final: RayTraceImage (rayTracePolygons,     *)
(* getRayColor, plot, clear, saveToDisk, display), the materials           *)
(* LambertianDiffuse and Metal, and the numeric helpers clamp and schlick. *)
(*                                                                         *)
(* Numbers.  A JavaScript number is modelled as a fixed-point integer: the *)
(* integer n stands for n / Scale.  A Ray / Vector / colour is a triple    *)
(* <<x, y, z>> of such integers (the code's v[0], v[1], v[2] are v[1],     *)
(* v[2], v[3] here).  Products and quotients round down to 1/Scale.        *)
(*                                                                         *)
(* Randomness.  Math.random() is a deterministic generator with a hidden   *)
(* state (rng); a draw reads the state and steps it.  randomUnitRay() and  *)
(* random_in_unit_sphere() are modelled by their result (a unit vector, a  *)
(* vector of length < 1) selected by one draw.                             *)
(***************************************************************************)
EXTENDS Integers, Sequences, FiniteSets, TLC

VARIABLES
    \* ---- Image / RayTraceImage fields
    matrix,        \* this.matrix: [0..rows-1 -> [0..columns-1 -> cell]]
    tempIndex,     \* Image.tempIndex (static)
    hittableList,  \* this.hittableList: the spheres of the scene, in order
    \* ---- Math.random
    seed,          \* the seed the generator is started from
    rng,           \* the generator's hidden state
    \* ---- rayTracePolygons' locals and position
    pc,            \* "idle" | "sample" | "call" | "return" | "accumulate" | "error"
    row, column, sample, pixelColor, pixel,
    \* ---- getRayColor's call stack and the value being returned
    stack, retval,
    \* ---- what super.saveToDisk wrote (toString())
    ppm,
    \* ---- observers (history only; no action's guard or result reads them)
    outcome,       \* what the last getRayColor call did
    hitQueries,    \* hittableList.hit calls since the primary ray was fired
    scatterCalls,  \* material.scatter calls since the primary ray was fired
    primaryRays,   \* primary rays fired for the current pixel
    plotted,       \* the plot calls of the current render, in order
    startRng,      \* the generator's state when the current render started
    primary,       \* the last primary ray and the generator's state at its call
    renders,       \* the completed renders: each one's start state and output
    \* ---- a single call of a pure function, for the claims about them
    call, ret

renderVars == <<matrix, tempIndex, hittableList, seed, rng, pc, row, column,
                sample, pixelColor, pixel, stack, retval, ppm, outcome,
                hitQueries, scatterCalls, primaryRays, plotted, startRng,
                primary, renders>>
vars == <<renderVars, call, ret>>

(***************************************************************************)
(* Bounds of the model.  rows, columns, samplesPerPixel, maxRecursionDepth *)
(* are the image's constructor arguments and fields (500 x 500, 200 and 50 *)
(* in the program); the model runs the same code on a small image.         *)
(***************************************************************************)
rows == 2
columns == 2
samplesPerPixel == 2
maxRecursionDepth == 3
MaxRenders == 2
CosineSteps == 4

\* The fixed-point unit: n stands for n / Scale.
Scale == 1000

---------------------------------------------------------------------------
(* Arithmetic of JavaScript numbers, in fixed point.                       *)

Mul(a, b) == (a * b) \div Scale
Div(a, b) == (a * Scale) \div b

\* floor(sqrt(n)) of an integer 0 <= n < 2^31: its digits in base 216, the
\* high one first (46340 is floor(sqrt(2^31 - 1)))
ISqrt(n) ==
    LET high == CHOOSE h \in 0..214 :
                    /\ (216 * h) * (216 * h) <= n
                    /\ h = 214 \/ (216 * (h + 1)) * (216 * (h + 1)) > n
    IN CHOOSE r \in (216 * high)..(216 * high + 215) :
           /\ r <= 46340
           /\ r * r <= n
           /\ r = 46340 \/ (r + 1) * (r + 1) > n

\* Math.sqrt
Sqrt(x) == ISqrt(x * Scale)

Half == Scale \div 2

\* Math.pow(base, exponent), for the exponents the program and its
\* specification use: one half (the square root) and five.
Pow(base, exponent) ==
    IF exponent = Half THEN Sqrt(base)
    ELSE IF exponent = 5 * Scale
         THEN Mul(Mul(Mul(Mul(base, base), base), base), base)
         ELSE base

---------------------------------------------------------------------------
(* render/ray: the vector algebra (specification 4.1).                     *)

addRay(a, b) == <<a[1] + b[1], a[2] + b[2], a[3] + b[3]>>
subtractRay(a, b) == <<a[1] - b[1], a[2] - b[2], a[3] - b[3]>>
scaleRay(v, s) == <<Mul(v[1], s), Mul(v[2], s), Mul(v[3], s)>>
multiplyRay(a, b) == <<Mul(a[1], b[1]), Mul(a[2], b[2]), Mul(a[3], b[3])>>
dotProduct(a, b) == (a[1] * b[1] + a[2] * b[2] + a[3] * b[3]) \div Scale
rayLength(v) == ISqrt(v[1] * v[1] + v[2] * v[2] + v[3] * v[3])
unitRay(v) ==
    LET len == rayLength(v)
    IN <<Div(v[1], len), Div(v[2], len), Div(v[3], len)>>
reflect(v, n) == subtractRay(v, scaleRay(n, 2 * dotProduct(v, n)))
rayAtTime(origin, direction, t) == addRay(origin, scaleRay(direction, t))

\* Six vectors of length one: what the random generators select from.
UnitRays ==
    << <<577, 577, 577>>, <<0, 600, 800>>, <<-577, 577, -577>>,
       <<800, 0, -600>>, <<577, -577, 577>>, <<-600, -800, 0>> >>

\* randomUnitRay(): a vector of length one, selected by the draw d
randomUnitRay(d) == UnitRays[(d % 6) + 1]
\* random_in_unit_sphere(): a vector of length below one, selected by d
random_in_unit_sphere(d) == scaleRay(UnitRays[(d % 6) + 1], Half)

---------------------------------------------------------------------------
(* utility/math-utility                                                    *)

clampNoMax(value, min, max) ==
    IF value < min THEN min ELSE value

clamp(value, min, max) ==
    IF value > max THEN max
    ELSE IF value < min THEN min
    ELSE value

schlickCosine(cosine, reflectionIndex) ==
    LET r0 == Div(Scale - reflectionIndex, Scale + reflectionIndex)
        r0sq == Mul(r0, r0)
    IN r0sq + Mul(Scale - r0sq, Pow(cosine, Half))

schlick(cosine, reflectionIndex) ==
    LET r0 == Div(Scale - reflectionIndex, Scale + reflectionIndex)
        r0sq == Mul(r0, r0)
    IN r0sq + Mul(Scale - r0sq, Pow(Scale - cosine, Half))

---------------------------------------------------------------------------
(* material                                                                *)

LambertianDiffuse(color) == [type |-> "lambertian", color |-> color, fuzz |-> 0]
Metal(color, fuzz) ==
    [type |-> "metal", color |-> color, fuzz |-> IF fuzz < Scale THEN fuzz ELSE Scale]

\* A scatter call's result: the boolean it returns and the scatterInfo it fills.
ScatterInfo(ok, position, direction, attenuation) ==
    [ok |-> ok, scatteredPosition |-> position,
     scatteredDirection |-> direction, attenuation |-> attenuation]

LambertianAbsorbsDownward(material, rayOrigin, rayDirection, hitRecords, d) ==
    LET scatterDirection == addRay(hitRecords.normal, randomUnitRay(d))
    IN ScatterInfo(scatterDirection[2] >= 0, hitRecords.positionOfIntersection,
                   scatterDirection, material.color)

LambertianScatter(material, rayOrigin, rayDirection, hitRecords, d) ==
    LET scatterDirection == addRay(hitRecords.normal, randomUnitRay(d))
    IN ScatterInfo(TRUE, hitRecords.positionOfIntersection,
                   scatterDirection, material.color)

MetalAlwaysFuzzy(material, rayOrigin, rayDirection, hitRecords, d) ==
    LET reflected == reflect(unitRay(rayDirection), hitRecords.normal)
    IN ScatterInfo(dotProduct(reflected, hitRecords.normal) > 0,
                   hitRecords.positionOfIntersection,
                   addRay(reflected, random_in_unit_sphere(d)),
                   material.color)

MetalScatter(material, rayOrigin, rayDirection, hitRecords, d) ==
    LET reflected == reflect(unitRay(rayDirection), hitRecords.normal)
    IN ScatterInfo(dotProduct(reflected, hitRecords.normal) > 0,
                   hitRecords.positionOfIntersection,
                   addRay(reflected, scaleRay(random_in_unit_sphere(d), material.fuzz)),
                   material.color)

\* hitRecords.material.scatter(...): the dispatch on the material's class
scatter(material, rayOrigin, rayDirection, hitRecords, d) ==
    IF material.type = "lambertian"
    THEN LambertianScatter(material, rayOrigin, rayDirection, hitRecords, d)
    ELSE MetalScatter(material, rayOrigin, rayDirection, hitRecords, d)

---------------------------------------------------------------------------
(* render/hittable, render/hittableList, render/camera (specification 4.2, *)
(* 4.4).  A hit test returns its record; hit = FALSE is "no hit".          *)

Sphere(center, radius, material) ==
    [center |-> center, radius |-> radius, material |-> material]

NoHit == [hit |-> FALSE]
Infinity == [finite |-> FALSE, t |-> 0]
Finite(t) == [finite |-> TRUE, t |-> t]
\* tMin < t < tMax
Within(t, tMin, tMax) == tMin < t /\ (~tMax.finite \/ t < tMax.t)

\* Sphere.hit: the roots of |origin + t*direction - center|^2 = radius^2,
\* the smaller one first.
SphereHit(sphere, origin, direction, tMin, tMax) ==
    LET oc == subtractRay(origin, sphere.center)
        a == dotProduct(direction, direction)
        halfB == dotProduct(oc, direction)
        c == dotProduct(oc, oc) - Mul(sphere.radius, sphere.radius)
        discriminant == Mul(halfB, halfB) - Mul(a, c)
        sqrtd == Sqrt(discriminant)
        near == Div(-halfB - sqrtd, a)
        far == Div(-halfB + sqrtd, a)
        Record(t) ==
            LET p == rayAtTime(origin, direction, t)
                d == subtractRay(p, sphere.center)
                outward == <<Div(d[1], sphere.radius), Div(d[2], sphere.radius),
                             Div(d[3], sphere.radius)>>
                front == dotProduct(direction, outward) < 0
            IN [hit |-> TRUE, time |-> t, positionOfIntersection |-> p,
                faceNormal |-> outward, isFrontFace |-> front,
                normal |-> IF front THEN outward ELSE subtractRay(<<0, 0, 0>>, outward),
                material |-> sphere.material]
    IN IF discriminant < 0 THEN NoHit
       ELSE IF Within(near, tMin, tMax) THEN Record(near)
       ELSE IF Within(far, tMin, tMax) THEN Record(far)
       ELSE NoHit

\* HittableList.hit: the nearest hit among the children, tMax shrinking to
\* the best time seen.
RECURSIVE HitFrom(_, _, _, _, _, _, _)
HitFrom(list, i, origin, direction, tMin, tMax, best) ==
    IF i > Len(list) THEN best
    ELSE LET h == SphereHit(list[i], origin, direction, tMin, tMax)
         IN IF h.hit
            THEN HitFrom(list, i + 1, origin, direction, tMin, Finite(h.time), h)
            ELSE HitFrom(list, i + 1, origin, direction, tMin, tMax, best)

hit(list, origin, direction, tMin, tMax) ==
    HitFrom(list, 1, origin, direction, tMin, tMax, NoHit)

\* Camera.getRay(u, v): from the eye at the origin to the point (u, v) of a
\* viewport of height 2*tan(25 degrees / 2) = 0.444 at distance 1 down -z.
getRay(u, v) ==
    LET lowerLeft == <<-222, -222, -Scale>>
        horizontal == <<444, 0, 0>>
        vertical == <<0, 444, 0>>
    IN addRay(lowerLeft, addRay(scaleRay(horizontal, u), scaleRay(vertical, v)))

\* Math.random(): the number in [0, 1) the generator's state s yields, and
\* the state after the draw.
RandomValue(s) == (s % 2) * Half
NextRandom(s) == (s + 3) % 7
Seeds == 0..6

---------------------------------------------------------------------------
(* The scenes rendered: what addWorldShape built before the first render.  *)

Grey == <<Half, Half, Half>>
Gold == <<800, 600, 200>>
Bright == <<2 * Scale, 2 * Scale, 2 * Scale>>

Scenes ==
    { \* nothing: every ray reaches the background
      <<>>,
      \* one diffuse sphere in front of the camera
      << Sphere(<<0, 0, -Scale>>, Half, LambertianDiffuse(Grey)) >>,
      \* a diffuse sphere around the camera: no ray escapes
      << Sphere(<<0, 0, 0>>, 4 * Scale, LambertianDiffuse(Grey)) >>,
      \* a mirror the central ray grazes
      << Sphere(<<Half, 0, -2 * Scale>>, Half, Metal(Gold, 0)) >>,
      \* a fuzzy metal sphere on a bright diffuse ground
      << Sphere(<<0, -10 * Scale - Half, -Scale>>, 10 * Scale, LambertianDiffuse(Bright)),
         Sphere(<<0, 0, -Scale>>, Half, Metal(Gold, 300)) >> }

---------------------------------------------------------------------------
(* render/image: Image and RayTraceImage.                                  *)

\* A matrix cell: undefined (never written), or a string; a colour string
\* "r g b" is the sequence <<r, g, b>> and "" the empty one.
Undefined == [kind |-> "undefined", text |-> <<>>]
String(text) == [kind |-> "string", text |-> text]
RowIndexes == 0..(rows - 1)
ColumnIndexes == 0..(columns - 1)

\* new Array(rows) of new Array(columns)
NewMatrix == [r \in RowIndexes |-> [c \in ColumnIndexes |-> Undefined]]

\* Image.toString: the P3 header, then the cells row by row, an undefined
\* or empty cell as white
RECURSIVE Cells(_, _)
Cells(m, i) ==
    IF i >= rows * columns THEN <<>>
    ELSE LET color == m[i \div columns][i % columns]
         IN <<IF color = Undefined \/ color = String(<<>>)
              THEN <<255, 255, 255>> ELSE color.text>> \o Cells(m, i + 1)
toString(m) == [header |-> <<columns, rows, 255>>, pixels |-> Cells(m, 0)]

Black == <<0, 0, 0>>

DepthExceededOffByOne(depth) == depth > maxRecursionDepth + 1
\* getRayColor's first test
DepthExceeded(depth) == depth > maxRecursionDepth

BackgroundBlack(directionRay) == Black
\* getRayColor's else branch: the background gradient
Background(directionRay) ==
    LET unit == unitRay(directionRay)
        t == Mul(Half, unit[2] + Scale)
    IN addRay(scaleRay(<<Scale, Scale, Scale>>, Scale - t),
              scaleRay(<<Half, 700, Scale>>, t))

FirstDepth == 1
NextDepthSame(depth) == depth
\* the depth getRayColor passes to its recursive call
NextDepth(depth) == depth + 1

Frame(origin, directionRay, depth) ==
    [origin |-> origin, directionRay |-> directionRay, depth |-> depth,
     attenuation |-> Black]

PlotRowUnflipped(r) == rows - r
\* RayTraceImage.plot: row = this.rows - 1 - row
PlotRow(r) == rows - 1 - r

ChannelUnclamped(val) ==
    (clampNoMax(Sqrt(val \div samplesPerPixel), 0, 999) * 255) \div Scale
\* Math.floor(clamp(Math.sqrt(val / this.samplesPerPixel), 0, .999) * 255)
Channel(val) ==
    (clamp(Sqrt(val \div samplesPerPixel), 0, 999) * 255) \div Scale

ColorString(color) == String(<<Channel(color[1]), Channel(color[2]), Channel(color[3])>>)

FirstPixelColorStale(m) ==
    LET old == m[PlotRow(rows - 1)][0]
    IN IF old.kind = "string" /\ old.text # <<>> THEN old.text ELSE Black
\* const pixelColor = [0, 0, 0]
NewPixelColor(m) == Black

Init ==
    /\ matrix = NewMatrix
    /\ tempIndex = 0
    /\ hittableList \in Scenes
    /\ seed \in Seeds
    /\ rng = seed
    /\ pc = "idle"
    /\ row = 0 /\ column = 0 /\ sample = 0 /\ pixel = 0
    /\ pixelColor = Black
    /\ stack = <<>>
    /\ retval = Black
    /\ ppm = <<>>
    /\ outcome = "none"
    /\ hitQueries = 0 /\ scatterCalls = 0 /\ primaryRays = 0
    /\ plotted = <<>>
    /\ startRng = seed
    /\ primary = [ray |-> Frame(<<0, 0, 0>>, <<0, 0, 0>>, FirstDepth), rng |-> seed]
    /\ renders = <<>>
    /\ call = [op |-> "none"]
    /\ ret = [done |-> FALSE]

probeVars == <<call, ret>>
loopVars == <<row, column, sample, pixelColor, pixel>>
counters == <<hitQueries, scatterCalls>>

\* rayTracePolygons up to its first sample
StartRender ==
    /\ row' = rows - 1
    /\ column' = 0
    /\ sample' = 0
    /\ pixel' = 0
    /\ pixelColor' = NewPixelColor(matrix)
    /\ pc' = "sample"
    /\ primaryRays' = 0
    /\ plotted' = <<>>
    /\ startRng' = rng
    /\ UNCHANGED <<matrix, hittableList, seed, rng, stack, retval, ppm, outcome,
                   counters, primary, renders, probeVars>>

\* RayTraceImage.saveToDisk(fileName)
SaveToDisk ==
    /\ pc = "idle"
    /\ Len(renders) < MaxRenders
    /\ UNCHANGED tempIndex
    /\ StartRender

\* Image.display(): names the file temp<tempIndex++>.ppm and saves it
Display ==
    /\ pc = "idle"
    /\ Len(renders) < MaxRenders
    /\ tempIndex' = tempIndex + 1
    /\ StartRender

\* RayTraceImage.clear()
Clear ==
    /\ pc = "idle"
    /\ matrix' = [r \in RowIndexes |-> [c \in ColumnIndexes |-> String(<<>>)]]
    /\ UNCHANGED <<tempIndex, hittableList, seed, rng, pc, loopVars, stack, retval,
                   ppm, outcome, counters, primaryRays, plotted, startRng, primary,
                   renders, probeVars>>

\* The caller restarts Math.random's generator from its seed.
Reseed ==
    /\ pc = "idle"
    /\ rng # seed
    /\ rng' = seed
    /\ UNCHANGED <<matrix, tempIndex, hittableList, seed, pc, loopVars, stack,
                   retval, ppm, outcome, counters, primaryRays, plotted, startRng,
                   primary, renders, probeVars>>

\* The sample loop's body up to the call getRayColor([0, 0, 0], ray, 1)
FireSample ==
    /\ pc = "sample"
    /\ sample < samplesPerPixel
    /\ LET u == Div(column * Scale + RandomValue(rng), (columns - 1) * Scale)
           v == Div(row * Scale + RandomValue(NextRandom(rng)), (rows - 1) * Scale)
           primaryRayDirection == getRay(u, v)
       IN /\ stack' = <<Frame(<<0, 0, 0>>, primaryRayDirection, FirstDepth)>>
          /\ primary' = [ray |-> Frame(<<0, 0, 0>>, primaryRayDirection, FirstDepth),
                         rng |-> NextRandom(NextRandom(rng))]
    /\ rng' = NextRandom(NextRandom(rng))
    /\ pc' = "call"
    /\ hitQueries' = 0
    /\ scatterCalls' = 0
    /\ primaryRays' = primaryRays + 1
    /\ outcome' = "none"
    /\ UNCHANGED <<matrix, tempIndex, hittableList, seed, loopVars, retval, ppm,
                   plotted, startRng, renders, probeVars>>

Top == stack[Len(stack)]
TopHit == hit(hittableList, Top.origin, Top.directionRay, 0, Infinity)
TopScatter == scatter(TopHit.material, Top.origin, Top.directionRay, TopHit, rng)

callFrame == <<matrix, tempIndex, hittableList, seed, loopVars, ppm, primaryRays,
               plotted, startRng, primary, renders, probeVars>>

\* getRayColor: depth > maxRecursionDepth, return [0, 0, 0]
GetRayColorTooDeep ==
    /\ pc = "call"
    /\ DepthExceeded(Top.depth)
    /\ retval' = Black
    /\ pc' = "return"
    /\ outcome' = "exceeded"
    /\ UNCHANGED <<rng, stack, counters, callFrame>>

\* getRayColor: no hit, return the background
GetRayColorMiss ==
    /\ pc = "call"
    /\ ~DepthExceeded(Top.depth)
    /\ ~TopHit.hit
    /\ hitQueries' = hitQueries + 1
    /\ retval' = Background(Top.directionRay)
    /\ pc' = "return"
    /\ outcome' = "miss"
    /\ UNCHANGED <<rng, stack, scatterCalls, callFrame>>

\* getRayColor: a hit whose material absorbs, return [0, 0, 0]
GetRayColorAbsorbed ==
    /\ pc = "call"
    /\ ~DepthExceeded(Top.depth)
    /\ TopHit.hit
    /\ ~TopScatter.ok
    /\ hitQueries' = hitQueries + 1
    /\ scatterCalls' = scatterCalls + 1
    /\ rng' = NextRandom(rng)
    /\ retval' = Black
    /\ pc' = "return"
    /\ outcome' = "absorbed"
    /\ UNCHANGED <<stack, callFrame>>

\* getRayColor: a hit whose material scatters, call getRayColor on the
\* scattered ray
GetRayColorScattered ==
    /\ pc = "call"
    /\ ~DepthExceeded(Top.depth)
    /\ TopHit.hit
    /\ TopScatter.ok
    /\ hitQueries' = hitQueries + 1
    /\ scatterCalls' = scatterCalls + 1
    /\ rng' = NextRandom(rng)
    /\ stack' = Append([stack EXCEPT ![Len(stack)].attenuation = TopScatter.attenuation],
                       Frame(TopScatter.scatteredPosition,
                             TopScatter.scatteredDirection, NextDepth(Top.depth)))
    /\ pc' = "call"
    /\ outcome' = "scattered"
    /\ UNCHANGED <<retval, callFrame>>

AttenuateNone(attenuation, color) == color
\* multiplyRay(scatterInfo.attenuation, getRayColor(..., depth + 1))
Attenuate(attenuation, color) == multiplyRay(attenuation, color)

\* A getRayColor call returns retval to its caller: to the getRayColor that
\* multiplies it by its attenuation and returns the product,
ReturnToCaller ==
    /\ pc = "return"
    /\ Len(stack) > 1
    /\ stack' = SubSeq(stack, 1, Len(stack) - 1)
    /\ retval' = Attenuate(stack[Len(stack) - 1].attenuation, retval)
    /\ UNCHANGED <<pc, rng, outcome, counters, callFrame>>

\* or to the sample loop
ReturnToLoop ==
    /\ pc = "return"
    /\ Len(stack) = 1
    /\ stack' = <<>>
    /\ pc' = "accumulate"
    /\ UNCHANGED <<retval, rng, outcome, counters, callFrame>>

\* pixelColor[i] += color[i]; sample++
Accumulate ==
    /\ pc = "accumulate"
    /\ pixelColor' = addRay(pixelColor, retval)
    /\ sample' = sample + 1
    /\ pc' = "sample"
    /\ UNCHANGED <<matrix, tempIndex, hittableList, seed, rng, row, column, pixel,
                   stack, retval, ppm, outcome, counters, primaryRays, plotted,
                   startRng, primary, renders, probeVars>>

\* The samples of a pixel are in: plot it and go to the next pixel; after the
\* last one rayTracePolygons returns and super.saveToDisk writes the image.
PlotPixel ==
    /\ pc = "sample"
    /\ sample >= samplesPerPixel
    /\ LET index == PlotRow(row)
           plottedMatrix == [matrix EXCEPT ![index][column] = ColorString(pixelColor)]
           lastColumn == ~(column + 1 < columns)
           lastRow == ~(row - 1 >= 0)
       IN IF index \notin RowIndexes
          THEN \* this.matrix[row] is undefined: a TypeError
               /\ pc' = "error"
               /\ UNCHANGED <<matrix, loopVars, ppm, primaryRays, plotted, renders>>
          ELSE /\ matrix' = plottedMatrix
               /\ plotted' = Append(plotted, [col |-> column, row |-> row,
                                              index |-> index, rays |-> primaryRays])
               /\ pixel' = pixel + 1
               /\ primaryRays' = 0
               /\ sample' = 0
               /\ pixelColor' = Black
               /\ column' = IF lastColumn THEN 0 ELSE column + 1
               /\ row' = IF lastColumn THEN row - 1 ELSE row
               /\ IF lastColumn /\ lastRow
                  THEN /\ pc' = "idle"
                       /\ ppm' = toString(plottedMatrix)
                       /\ renders' = Append(renders, [rng |-> startRng,
                                                      matrix |-> plottedMatrix])
                  ELSE /\ pc' = "sample"
                       /\ UNCHANGED <<ppm, renders>>
    /\ UNCHANGED <<tempIndex, hittableList, seed, rng, stack, retval, outcome,
                   counters, startRng, primary, probeVars>>

Next ==
    \/ SaveToDisk
    \/ Display
    \/ Clear
    \/ Reseed
    \/ FireSample
    \/ GetRayColorTooDeep
    \/ GetRayColorMiss
    \/ GetRayColorAbsorbed
    \/ GetRayColorScattered
    \/ ReturnToCaller
    \/ ReturnToLoop
    \/ Accumulate
    \/ PlotPixel

Spec == Init /\ [][Next]_vars

---------------------------------------------------------------------------
(* Single calls of the pure functions: the arguments are drawn by the      *)
(* initial state, the call is one step.                                    *)

Cosines == {(k * Scale) \div CosineSteps : k \in 0..CosineSteps}
ReflectionIndexes == {667, Scale, 1500}

Directions == { <<0, 0, -Scale>>, <<-222, 222, -Scale>>, <<0, -2 * Scale, 0>>,
                <<600, 0, 800>> }
Normals == { <<0, 0, Scale>>, <<0, Scale, 0>>, <<-577, -577, -577>>,
             <<-600, 0, -800>> }
Points == { <<0, 0, -Half>>, <<250, -100, -2 * Scale>> }
Colors == {Grey, Gold}
Fuzzes == {0, 300, 1500}
Sums == {(k * samplesPerPixel * Scale) \div 8 : k \in 0..16}
            \cup {1, 1000 * samplesPerPixel * Scale}

HitRecordsOf(p, n) ==
    [hit |-> TRUE, time |-> Scale, positionOfIntersection |-> p, faceNormal |-> n,
     isFrontFace |-> TRUE, normal |-> n, material |-> LambertianDiffuse(Grey)]

ScatterCalls(materials) ==
    { [op |-> "scatter", material |-> m, rayOrigin |-> <<0, 0, 0>>, rayDirection |-> dir,
       hitRecords |-> HitRecordsOf(p, n), d |-> d] :
        m \in materials, dir \in Directions, p \in Points, n \in Normals, d \in 0..5 }

PureCalls ==
    { [op |-> "schlick", cosine |-> c, reflectionIndex |-> r] :
        c \in Cosines, r \in ReflectionIndexes }
    \cup ScatterCalls({LambertianDiffuse(c) : c \in Colors})
    \cup ScatterCalls({Metal(Gold, f) : f \in Fuzzes})
    \cup { [op |-> "colorString", pixelColor |-> <<r, g, 0>>] : r \in Sums, g \in {0, Scale} }

PureInit ==
    /\ matrix = NewMatrix
    /\ tempIndex = 0
    /\ hittableList = <<>>
    /\ seed = 0
    /\ rng = 0
    /\ pc = "idle"
    /\ row = 0 /\ column = 0 /\ sample = 0 /\ pixel = 0
    /\ pixelColor = Black
    /\ stack = <<>>
    /\ retval = Black
    /\ ppm = <<>>
    /\ outcome = "none"
    /\ hitQueries = 0 /\ scatterCalls = 0 /\ primaryRays = 0
    /\ plotted = <<>>
    /\ startRng = 0
    /\ primary = [ray |-> Frame(<<0, 0, 0>>, <<0, 0, 0>>, FirstDepth), rng |-> 0]
    /\ renders = <<>>
    /\ call \in PureCalls
    /\ ret = [done |-> FALSE]

Returned(value) == ret' = [done |-> TRUE, value |-> value]

CallSchlick ==
    /\ ~ret.done
    /\ call.op = "schlick"
    /\ Returned(schlick(call.cosine, call.reflectionIndex))
    /\ UNCHANGED <<renderVars, call>>

CallLambertianScatter ==
    /\ ~ret.done
    /\ call.op = "scatter"
    /\ call.material.type = "lambertian"
    /\ Returned(scatter(call.material, call.rayOrigin, call.rayDirection,
                        call.hitRecords, call.d))
    /\ UNCHANGED <<renderVars, call>>

CallMetalScatter ==
    /\ ~ret.done
    /\ call.op = "scatter"
    /\ call.material.type = "metal"
    /\ Returned(scatter(call.material, call.rayOrigin, call.rayDirection,
                        call.hitRecords, call.d))
    /\ UNCHANGED <<renderVars, call>>

CallColorString ==
    /\ ~ret.done
    /\ call.op = "colorString"
    /\ Returned(ColorString(call.pixelColor))
    /\ UNCHANGED <<renderVars, call>>

PureNext ==
    \/ CallSchlick
    \/ CallLambertianScatter
    \/ CallMetalScatter
    \/ CallColorString

SpecPure == PureInit /\ [][PureNext]_vars

\* The first render alone, every step of it taken sooner or later: the
\* program is one sequential thread, so a render that can take a step takes
\* it.  This is weak fairness of the step, WF_vars(FirstRender), with
\* ENABLED <<FirstRender>>_vars written as the state predicate Running it
\* equals: while a render runs (pc is neither "idle" nor "error") exactly one
\* of its steps is possible, and the step changes pc, the stack or a counter.
Running == pc \notin {"idle", "error"}
FirstRender ==
    \/ (Len(renders) = 0 /\ SaveToDisk)
    \/ (Len(renders) = 0 /\ Display)
    \/ (Len(renders) = 0 /\ Clear)
    \/ FireSample
    \/ GetRayColorTooDeep
    \/ GetRayColorMiss
    \/ GetRayColorAbsorbed
    \/ GetRayColorScattered
    \/ ReturnToCaller
    \/ ReturnToLoop
    \/ Accumulate
    \/ PlotPixel
FairSpec ==
    /\ Init
    /\ [][FirstRender]_vars
    /\ ([]<>(~Running) \/ []<><<FirstRender>>_vars)

---------------------------------------------------------------------------
(* The claims.                                                             *)

\* C1: a getRayColor call whose depth is above maxRecursionDepth returns
\* [0, 0, 0], whatever the ray and the scene, and neither queries the
\* hittable list nor calls a material (so draws no random number and makes
\* no recursive call).
C1_TooDeepReturnsBlack ==
    [][(pc = "call" /\ Top.depth > maxRecursionDepth)
        => /\ pc' = "return"
           /\ retval' = <<0, 0, 0>>
           /\ hitQueries' = hitQueries
           /\ scatterCalls' = scatterCalls
           /\ rng' = rng
           /\ stack' = stack]_vars

C1_Witness ==
    /\ pc = "return"
    /\ outcome = "exceeded"
    /\ Len(stack) = maxRecursionDepth + 1
    /\ Top.depth > maxRecursionDepth
    /\ retval = <<0, 0, 0>>

\* The background of the claim C2: (1 - t) * white + t * (0.5, 0.7, 1) with
\* t = 0.5 * (unitDirection.y + 1)
Gradient(direction) ==
    LET t == Mul(Half, unitRay(direction)[2] + Scale)
    IN <<Mul(Scale - t, Scale) + Mul(t, Half),
         Mul(Scale - t, Scale) + Mul(t, 700),
         Mul(Scale - t, Scale) + Mul(t, Scale)>>

\* C2: a getRayColor call within the depth limit whose hit query reports no
\* hit returns the background gradient of its direction; it calls no
\* material's scatter and makes no recursive call.
C2_MissReturnsBackground ==
    [][(pc = "call" /\ Top.depth <= maxRecursionDepth /\ ~TopHit.hit)
        => /\ pc' = "return"
           /\ retval' = Gradient(Top.directionRay)
           /\ hitQueries' = hitQueries + 1
           /\ scatterCalls' = scatterCalls
           /\ rng' = rng
           /\ stack' = stack]_vars

C2_Witness ==
    /\ pc = "return"
    /\ outcome = "miss"
    /\ scatterCalls = 0
    /\ retval = Gradient(Top.directionRay)
    /\ retval # <<0, 0, 0>>

\* C3: LambertianDiffuse.scatter returns true for every incoming ray, hit
\* record and random unit vector, with the scattered origin the hit point
\* and the attenuation the material's colour.
C3_LambertianNeverAbsorbs ==
    (ret.done /\ call.op = "scatter" /\ call.material.type = "lambertian")
        => /\ ret.value.ok = TRUE
           /\ ret.value.scatteredPosition = call.hitRecords.positionOfIntersection
           /\ ret.value.attenuation = call.material.color

C3_Witness ==
    /\ ret.done
    /\ call.op = "scatter"
    /\ call.material.type = "lambertian"
    /\ ret.value.ok
    /\ ret.value.scatteredDirection[2] < 0
    /\ ret.value.attenuation = Gold

\* C4: Metal.scatter with fuzz = 0 sets the scattered direction to
\* reflect(unit(incoming direction), normal) exactly, returns false when
\* dot(reflected, normal) <= 0 and true when it is > 0.
C4_MirrorReflectsExactly ==
    (ret.done /\ call.op = "scatter" /\ call.material.type = "metal"
        /\ call.material.fuzz = 0)
        => LET reflected == reflect(unitRay(call.rayDirection), call.hitRecords.normal)
               into == dotProduct(reflected, call.hitRecords.normal) <= 0
           IN /\ ret.value.scatteredDirection = reflected
              /\ into => ret.value.ok = FALSE
              /\ ~into => ret.value.ok = TRUE

C4_Witness ==
    /\ ret.done
    /\ call.op = "scatter"
    /\ call.material.type = "metal"
    /\ call.material.fuzz = 0
    /\ ~ret.value.ok
    /\ ret.value.scatteredDirection =
           reflect(unitRay(call.rayDirection), call.hitRecords.normal)
    /\ dotProduct(ret.value.scatteredDirection, call.hitRecords.normal) < 0

\* The reflectance of the claim C5: r0 + (1 - r0) * (1 - cosine)^5 with
\* r0 = ((1 - ratio) / (1 + ratio))^2
SchlickFifthPower(cosine, ratio) ==
    LET r == Div(Scale - ratio, Scale + ratio)
        r0 == Mul(r, r)
        x == Scale - cosine
    IN r0 + Mul(Scale - r0, Mul(Mul(Mul(Mul(x, x), x), x), x))

\* C5: for every cosine in [0, 1] and every positive index ratio,
\* schlick(cosine, ratio) is r0 + (1 - r0) * (1 - cosine)^5.
C5_SchlickIsFifthPower ==
    (ret.done /\ call.op = "schlick")
        => ret.value = SchlickFifthPower(call.cosine, call.reflectionIndex)

\* C6: schlick(1, 1) is 0.
C6_SchlickMatchedNormalIncidence ==
    (ret.done /\ call.op = "schlick" /\ call.cosine = Scale
        /\ call.reflectionIndex = Scale)
        => ret.value = 0

C6_Witness ==
    /\ ret.done
    /\ call.op = "schlick"
    /\ call.cosine = Scale
    /\ call.reflectionIndex = Scale
    /\ ret.value = 0

\* C7: each channel of the colour string plotted for a non-negative colour
\* sum is an integer in [0, 255]: the floor of 255 times the square root of
\* sum / samplesPerPixel clamped to [0, 0.999], so never above 255 times the
\* square root, 0 for a zero sum and 254 from sum / samplesPerPixel = 1 on.
C7_ChannelsAreBytes ==
    (ret.done /\ call.op = "colorString")
        => /\ ret.value.kind = "string"
           /\ Len(ret.value.text) = 3
           /\ \A i \in 1..3 :
                LET k == ret.value.text[i]
                    mean == call.pixelColor[i] \div samplesPerPixel
                IN /\ k \in 0..255
                   /\ mean = 0 => k = 0
                   /\ mean >= Scale => k = 254
                   /\ mean < Scale => k * k * Scale <= 255 * 255 * mean
                   /\ mean < 998 => (k + 2) * (k + 2) * Scale > 255 * 255 * mean

C7_Witness ==
    /\ ret.done
    /\ call.op = "colorString"
    /\ call.pixelColor[1] >= 1000 * samplesPerPixel * Scale
    /\ call.pixelColor[2] = Scale
    /\ ret.value.text = <<254, Channel(Scale), 0>>
    /\ Channel(Scale) \in 1..253

\* C8: two renders of the same scene with the same parameters that start
\* from the same state of the random generator produce the same matrix,
\* whatever the matrix held before and whatever tempIndex is.
C8_RendersAreRepeatable ==
    \A i \in 1..Len(renders) : \A j \in 1..Len(renders) :
        renders[i].rng = renders[j].rng => renders[i].matrix = renders[j].matrix

C8_Witness ==
    /\ pc = "idle"
    /\ Len(renders) >= 2
    /\ renders[1].rng = renders[2].rng
    /\ renders[1].matrix = renders[2].matrix
    /\ tempIndex > 0
    /\ \E r \in RowIndexes : \E c \in ColumnIndexes :
          /\ renders[2].matrix[r][c].text # <<0, 0, 0>>
          /\ renders[2].matrix[r][c] # renders[2].matrix[0][0]

\* The k-th pixel of a render, rows outer from the last row down, columns
\* inner from the first column up
VisitRow(k) == rows - 1 - ((k - 1) \div columns)
VisitColumn(k) == (k - 1) % columns

\* C9: a render visits the pixels rows outer, columns inner, fires exactly
\* samplesPerPixel primary rays, each at depth 1, for a pixel before it
\* plots it, plots each pixel once, at matrix[rows - 1 - row][col], which is
\* inside the matrix, and leaves no cell of the matrix unset.
C9_EveryPixelPlottedOnce ==
    /\ pc # "error"
    /\ primaryRays <= samplesPerPixel
    /\ Len(stack) > 0 => stack[1].depth = 1
    /\ pixel = Len(plotted)
    /\ \A k \in 1..Len(plotted) :
          /\ plotted[k].row = VisitRow(k)
          /\ plotted[k].col = VisitColumn(k)
          /\ plotted[k].rays = samplesPerPixel
          /\ plotted[k].index = rows - 1 - plotted[k].row
          /\ plotted[k].index \in RowIndexes
          /\ plotted[k].col \in ColumnIndexes
          /\ matrix[plotted[k].index][plotted[k].col].kind = "string"
          /\ \A l \in 1..Len(plotted) :
                (plotted[l].index = plotted[k].index /\ plotted[l].col = plotted[k].col)
                    => l = k
    /\ pc \in {"sample", "call", "return", "accumulate"} =>
          /\ Len(plotted) < rows * columns
          /\ row = VisitRow(Len(plotted) + 1)
          /\ column = VisitColumn(Len(plotted) + 1)
    /\ (pc = "idle" /\ Len(renders) > 0) => Len(plotted) = rows * columns
    /\ \A n \in 1..Len(renders) : \A r \in RowIndexes : \A c \in ColumnIndexes :
          /\ renders[n].matrix[r][c].kind = "string"
          /\ Len(renders[n].matrix[r][c].text) = 3

C9_Witness ==
    /\ pc = "idle"
    /\ Len(renders) = 1
    /\ Len(plotted) = rows * columns
    /\ plotted[1].row = rows - 1 /\ plotted[1].col = 0 /\ plotted[1].index = 0
    /\ plotted[rows * columns].row = 0
    /\ plotted[rows * columns].index = rows - 1
    /\ plotted[rows * columns].col = columns - 1
    /\ matrix = renders[1].matrix

\* C10: a getRayColor call started at depth 1 returns a colour to the
\* sample loop, raising no error, after at most maxRecursionDepth hit
\* queries and at most maxRecursionDepth scatter calls; each nested call's
\* depth is its caller's plus one.
C10_RayColorTerminates ==
    /\ [](/\ pc # "error"
          /\ hitQueries <= maxRecursionDepth
          /\ scatterCalls <= maxRecursionDepth
          /\ Len(stack) <= maxRecursionDepth + 1
          /\ \A i \in 1..Len(stack) : stack[i].depth = i)
    /\ (pc = "call") ~> (pc = "accumulate" /\ stack = <<>>)

C10_Witness ==
    /\ pc = "accumulate"
    /\ stack = <<>>
    /\ hitQueries = maxRecursionDepth
    /\ scatterCalls = maxRecursionDepth
    /\ outcome = "exceeded"

\* The iterative loop of the claim C11: follow the scattered rays, multiply
\* the attenuations into a running product, and stop at the end of the path
\* with its terminal colour: black past the depth limit or on absorption,
\* the background gradient on a miss.  The loop also keeps the attenuations
\* it met, in order.
RECURSIVE IterativeLoop(_, _, _, _, _, _, _)
IterativeLoop(world, origin, directionRay, depth, product, attenuations, r) ==
    LET end(terminal) == [product |-> product, attenuations |-> attenuations,
                          terminal |-> terminal]
    IN IF depth > maxRecursionDepth THEN end(<<0, 0, 0>>)
       ELSE LET hitRecords == hit(world, origin, directionRay, 0, Infinity)
            IN IF ~hitRecords.hit THEN end(Gradient(directionRay))
               ELSE LET scatterInfo == scatter(hitRecords.material, origin,
                                               directionRay, hitRecords, r)
                    IN IF ~scatterInfo.ok THEN end(<<0, 0, 0>>)
                       ELSE IterativeLoop(world, scatterInfo.scatteredPosition,
                                scatterInfo.scatteredDirection, depth + 1,
                                multiplyRay(product, scatterInfo.attenuation),
                                Append(attenuations, scatterInfo.attenuation),
                                NextRandom(r))

\* the loop run on the last primary ray
IterativePath ==
    IterativeLoop(hittableList, primary.ray.origin, primary.ray.directionRay,
                  primary.ray.depth, <<Scale, Scale, Scale>>, <<>>, primary.rng)

\* the running product times the terminal colour
IterativeRayColor == multiplyRay(IterativePath.product, IterativePath.terminal)

\* the attenuations applied to the terminal colour one by one, the last
\* surface's first
RECURSIVE ApplyAttenuations(_, _)
ApplyAttenuations(attenuations, color) ==
    IF attenuations = <<>> THEN color
    ELSE multiplyRay(Head(attenuations), ApplyAttenuations(Tail(attenuations), color))

====
